---- MODULE Spec2Model ----
(***************************************************************************)
(* Model of the ground-station tracker of discosat/sattrack:               *)
(* app/services/satellite_tracker.py (class SatelliteTracker), its HTTP    *)
(* callers in app/api and the rotor link app/services/rotor_controller.py. *)
(*                                                                         *)
(* Reading conventions.                                                    *)
(*  - The source spells some names inconsistently (schedueled_pass,        *)
(*    self.tracking, pass_obj, datetieme.now).  They are read as the       *)
(*    attributes they stand for: scheduled_passes, is_tracking, the        *)
(*    argument pass and datetime.now().                                    *)
(*  - _track_satellite is the target of the session thread; its body is    *)
(*    modelled as the steps that thread executes.                          *)
(*  - Facade methods are called from `async def` route handlers, which run *)
(*    on one event loop: a facade call starts only when no other facade    *)
(*    call is in progress (call = "idle").  Session and scheduler threads  *)
(*    interleave freely with a facade call in progress.                    *)
(*  - Time is a discrete clock `now`.  The clock advances only when no     *)
(*    thread has a step that is due (a thread that woke from a wait runs   *)
(*    before the next clock unit), except a thread inside the rotor        *)
(*    exchange, whose reader.read(64) has no timeout and may block for any *)
(*    length of time.                                                      *)
(*  - _scheduler_loop is referenced (line 344) but is not in the source;   *)
(*    SchedulerPop and SchedulerExit follow the written specification.     *)
(***************************************************************************)
EXTENDS Integers, Sequences, FiniteSets, TLC

\* ---------------------------------------------------------------- bounds
MaxNow == 3          \* the clock runs over 0..MaxNow
MaxSet == 4          \* latest set time of a pass
MaxDur == 2          \* longest pass
MaxSessions == 2     \* session threads created in one run with the scheduler
MaxManual == 3       \* session threads created in one run of manual tracking
NumTLE == 2          \* distinct TLE contents the file may hold
MaxCommands == 2     \* rotctl commands run by the control endpoint in one run
NumCallers == 2      \* calls of RotorController.initialize in one run
MaxExchanges == 3    \* calls of RotorController.write in one run of the link

\* ------------------------------------------------------ program constants
OneWeek == 2         \* timedelta(days=7), in clock units
TickInterval == 1    \* stop_tracking_event.wait(timeout=1)
JoinTimeout == 2     \* join(timeout=2.0)
MaxAttempts == 10    \* max_attempts = 10
AzLimit == 180       \* azimuth > 180 or azimuth < -180
ElLow == 1           \* elevation < 1
ElHigh == 90         \* elevation > 90
NoConnection == 0    \* reader = None, writer = None

VARIABLES
    now,                    \* datetime.now(timezone.utc)
    satellite,              \* self.satellite / satellite_name: 0 = None, else TLE id
    is_tracking,            \* self.is_tracking
    stop_tracking_event,    \* self.stop_tracking_event (flag of the Event)
    tracking_data,          \* self.tracking_data
    threads,                \* session threads ever started; the last is self.tracking_thread
    scheduled_passes,       \* self.scheduled_passes, as the sequence get() would return
    is_scheduler_running,   \* self.is_scheduler_running
    scheduler_stop_event,   \* self.scheduler_stop_event
    scheduler_pc,           \* self.scheduler_thread: "none", "loop", "exited"
    call,                   \* facade call in progress on the event loop
    join_deadline,          \* clock value at which the pending join() times out
    result,                 \* outcome of the last completed facade call
    search,                 \* the frame of a _get_next_pass call
    control,                \* POST /rotor/control: last request, answer, commands run
    snapshot,               \* the frame and the result of a get_tracking_data call
    stream,                 \* rotor connection: the requests sent whose response is
                            \* unread, oldest first, each named by the thread that sent it
    link                    \* RotorController.reader/writer, the connections opened,
                            \* the initialize calls and the exchanges made

vars == <<now, satellite, is_tracking, stop_tracking_event, tracking_data, threads,
          scheduled_passes, is_scheduler_running, scheduler_stop_event, scheduler_pc,
          call, join_deadline, result, search, control, snapshot, stream, link>>

\* The attributes of the tracker and its threads.
tracker_vars == <<now, satellite, is_tracking, stop_tracking_event, tracking_data,
                  threads, scheduled_passes, is_scheduler_running,
                  scheduler_stop_event, scheduler_pc, call, join_deadline, result>>

\* What the tracker's facade calls and threads, as modelled, never touch.
others == <<search, control, snapshot, link>>

\* ------------------------------------------------------------ data model
\* Pass (rise, set); culminate lies strictly between and is read by no operation.
Passes == {p \in [rise : 0..MaxSet, set : 0..MaxSet] :
              p.rise < p.set /\ p.set - p.rise <= MaxDur}

NoPass == [rise |-> -1, set |-> -1]      \* None
NoTime == -1                              \* None

\* One position of the satellite as topocentric.altaz() returns it.
Positions == {[az |-> 1, el |-> 1, dist |-> 1], [az |-> 2, el |-> -1, dist |-> 2]}

\* No _get_next_pass call in progress.
NoSearch == [pc |-> "none", attempts |-> 0, events |-> "none", days |-> 0,
             nudges |-> 0, finds |-> 0, found |-> FALSE]

\* No request to the control endpoint yet.
NoControl == [azimuth |-> 0, elevation |-> 0, response |-> "none", commands |-> <<>>]

DefaultTrackingData ==
    [azimuth |-> 0, elevation |-> 0, distance |-> 0, last_updated |-> NoTime,
     status |-> "idle", current_pass |-> NoPass]

\* The keys of tracking_data in the order get_tracking_data reads them
\* (lines 322-327; "satellite" is read before them at line 321).
ReadOrder == <<"azimuth", "elevation", "distance", "status", "last_updated",
               "current_pass">>

\* No get_tracking_data call yet.
NoSnapshot == [pc |-> "none", next |-> 0, satellite |-> 0, data |-> DefaultTrackingData]

\* The class attributes of RotorController before any call. reader stands for
\* the pair (reader, writer), which line 10 assigns together: NoConnection or
\* the number of the connection held. opened counts the connections
\* open_connection has returned, failed holds the connections whose transport
\* has failed, pc is the position of each initialize call, and log lists the
\* write calls made: the connection each one used and how it ended.
NoLink == [reader |-> NoConnection, opened |-> 0, failed |-> {},
           pc |-> [c \in 1..NumCallers |-> "idle"], log |-> <<>>]

\* ------------------------------------------------------- priority queue
\* queue.PriorityQueue keyed by rise: put keeps the entries in rise order.
RECURSIVE PQPut(_, _)
PQPut(q, p) ==
    IF q = <<>> THEN <<p>>
    ELSE IF p.rise < Head(q).rise THEN <<p>> \o q
    ELSE <<Head(q)>> \o PQPut(Tail(q), p)

\* A comparison that keeps only the second of the two tests.
OverlapTestRiseInside(new_pass, other) ==
    new_pass.rise > other.rise /\ new_pass.rise < other.set

\* A comparison on closed intervals: passes that only touch count as overlapping.
OverlapTestClosed(new_pass, other) ==
    new_pass.rise <= other.set /\ new_pass.set >= other.rise

\* The comparison of _is_overlapping (the same two tests for both callers).
OverlapTest(new_pass, other) ==
    \/ new_pass.rise < other.set /\ new_pass.set > other.rise
    \/ new_pass.rise > other.rise /\ new_pass.rise < other.set

\* A scan that returns at the first overlapping entry, as the test of the
\* in-flight pass does: the entries taken out so far are not put back.
RECURSIVE DrainScanReturnsEarly(_, _, _, _)
DrainScanReturnsEarly(q, tmp_q, has_overlap, new_pass) ==
    IF q = <<>> THEN [tmp_q |-> tmp_q, has_overlap |-> has_overlap]
    ELSE IF OverlapTest(new_pass, Head(q))
    THEN [tmp_q |-> Tail(q), has_overlap |-> TRUE]
    ELSE DrainScanReturnsEarly(Tail(q), PQPut(tmp_q, Head(q)), has_overlap, new_pass)

\* Drain scheduled_passes into tmp_q, testing each entry.
RECURSIVE DrainScan(_, _, _, _)
DrainScan(q, tmp_q, has_overlap, new_pass) ==
    IF q = <<>> THEN [tmp_q |-> tmp_q, has_overlap |-> has_overlap]
    ELSE DrainScan(Tail(q), PQPut(tmp_q, Head(q)),
                   has_overlap \/ OverlapTest(new_pass, Head(q)), new_pass)

\* Restore the priority queue from tmp_q.
RECURSIVE Refill(_, _)
Refill(tmp_q, q) ==
    IF tmp_q = <<>> THEN q ELSE Refill(Tail(tmp_q), PQPut(q, Head(tmp_q)))

\* _is_overlapping: the answer and the queue it leaves behind.
IsOverlapping(new_pass) ==
    IF /\ is_tracking
       /\ tracking_data.current_pass # NoPass
       /\ OverlapTest(new_pass, tracking_data.current_pass)
    THEN [has_overlap |-> TRUE, queue |-> scheduled_passes]
    ELSE LET d == DrainScan(scheduled_passes, <<>>, FALSE, new_pass)
         IN  [has_overlap |-> d.has_overlap, queue |-> Refill(d.tmp_q, <<>>)]

\* ------------------------------------------------------------- threads
Alive(t) == t.pc \notin {"done", "crashed"}

tracking_thread == Len(threads)          \* 0: None

NewThread(p, by) ==
    [pc |-> "start", pass |-> p, deadline |-> NoTime, by |-> by,
     sat |-> satellite, woke |-> FALSE, cancel_at |-> NoTime,
     cancel_phase |-> "none", tracked |-> FALSE]

\* A thread that has returned (or died on an exception): its frame is gone.
\* Of its history only "cancelled while waiting for the rise" is kept.
Ended(t, how) ==
    [pc |-> how, pass |-> NoPass, deadline |-> NoTime, by |-> "none",
     sat |-> 0, woke |-> FALSE, cancel_at |-> NoTime,
     cancel_phase |-> IF t.cancel_phase = "waiting" THEN "waiting" ELSE "none",
     tracked |-> t.tracked /\ t.cancel_phase = "waiting"]

\* A wait that sleeps to its deadline whatever the flag (threading.Event().wait(t)
\* on a fresh event, as in the commented-out line 258).
EventWaitDeaf(t) == IF now >= t.deadline THEN {FALSE} ELSE {}

\* stop_tracking_event.wait(timeout) of thread t: the values it may return now;
\* empty when it blocks.  A waiter that set() notified returns True even if the
\* flag was cleared since; a wait entered with the flag up returns True; a wait
\* whose timeout has passed returns False, or either value when set() came at
\* that moment.
EventWait(t) ==
    IF t.woke THEN {TRUE}
    ELSE IF stop_tracking_event
    THEN IF now >= t.deadline THEN {TRUE, FALSE} ELSE {TRUE}
    ELSE IF now >= t.deadline THEN {FALSE} ELSE {}

\* stop_tracking_event.set(): every thread blocked in wait() is notified.  The
\* call is also noted in the history of every live session (cancel_at,
\* cancel_phase), once.
EventSet(ths) ==
    [i \in DOMAIN ths |->
        IF ~Alive(ths[i]) THEN ths[i]
        ELSE [ths[i] EXCEPT
                !.woke = ths[i].woke
                           \/ (ths[i].pc \in {"wait_rise", "tick_wait"}
                                 /\ now < ths[i].deadline),
                !.cancel_at = IF ths[i].cancel_at = NoTime THEN now ELSE @,
                !.cancel_phase =
                    IF ths[i].cancel_at # NoTime THEN @
                    ELSE IF ths[i].pc \in {"start", "wait_rise"} /\ now < ths[i].pass.rise
                    THEN "waiting" ELSE "tracking"]]

Init ==
    /\ now = 0
    /\ satellite \in {0, 1}
    /\ is_tracking = FALSE
    /\ stop_tracking_event = FALSE
    /\ tracking_data = DefaultTrackingData
    /\ threads = <<>>
    /\ scheduled_passes = <<>>
    /\ is_scheduler_running = FALSE
    /\ scheduler_stop_event = FALSE
    /\ scheduler_pc = "none"
    /\ call = "idle"
    /\ join_deadline = NoTime
    /\ result = "none"
    /\ search = NoSearch
    /\ control = NoControl
    /\ snapshot = NoSnapshot
    /\ stream = <<>>
    /\ link = NoLink


\* ------------------------------------------------------------ rotor link
\* RotorController.write, lines 27-28: the command goes out on the shared
\* writer; its response is now owed on the shared reader.
RotorSend(st, i) == Append(st, i)

\* RotorController.write, line 29: reader.read(64) takes what the connection
\* delivers next, the response to the oldest request not yet answered for.
RotorReceive(st) == IF st = <<>> THEN st ELSE Tail(st)

\* -------------------------------------------------- session thread steps
\* Lines 299-301: the end of _track_satellite.
SessionEnd(td) == [td EXCEPT !.status = "idle"]

\* Lines 285-290: tracking_data.update({...}).
Publish(td, pos) ==
    [td EXCEPT !.azimuth = pos.az, !.elevation = pos.el,
               !.distance = pos.dist, !.last_updated = now]

\* Lines 245-251 and 261: time_till_rise, then "waiting" and into the wait (which
\* reads the flag as it is entered), or straight to "tracking".
TrackBegin(i) ==
    /\ threads[i].pc = "start"
    /\ IF threads[i].pass.rise - now > 0
       THEN /\ tracking_data' = [tracking_data EXCEPT !.status = "waiting"]
            /\ threads' = [threads EXCEPT ![i].pc = "wait_rise",
                                          ![i].deadline = threads[i].pass.rise,
                                          ![i].woke = stop_tracking_event]
       ELSE /\ tracking_data' = [tracking_data EXCEPT !.status = "tracking"]
            /\ threads' = [threads EXCEPT ![i].pc = "loop", ![i].tracked = TRUE]
    /\ UNCHANGED <<now, satellite, is_tracking, stop_tracking_event, scheduled_passes,
                   is_scheduler_running, scheduler_stop_event, scheduler_pc, call,
                   join_deadline, result>>
    /\ UNCHANGED <<others, stream>>

\* Lines 251-261: the cancellable wait for the rise time.
TrackWaitRise(i) ==
    /\ threads[i].pc = "wait_rise"
    /\ \E woke \in EventWait(threads[i]) :
         IF woke
         THEN /\ tracking_data' = SessionEnd(tracking_data)
              /\ is_tracking' = FALSE
              /\ threads' = [threads EXCEPT ![i] = Ended(threads[i], "done")]
         ELSE /\ tracking_data' = [tracking_data EXCEPT !.status = "tracking"]
              /\ is_tracking' = is_tracking
              /\ threads' = [threads EXCEPT ![i].pc = "loop", ![i].tracked = TRUE,
                                            ![i].woke = FALSE]
    /\ UNCHANGED <<now, satellite, stop_tracking_event, scheduled_passes,
                   is_scheduler_running, scheduler_stop_event, scheduler_pc, call,
                   join_deadline, result>>
    /\ UNCHANGED <<others, stream>>

\* Lines 264-279 (and 299-301 when the loop is left): the loop test, the
\* pass-over test and, past them, the command of rotor.write sent.
TrackLoop(i) ==
    /\ threads[i].pc = "loop"
    /\ IF ~is_tracking \/ now > threads[i].pass.set
       THEN /\ tracking_data' = SessionEnd(tracking_data)
            /\ is_tracking' = FALSE
            /\ threads' = [threads EXCEPT ![i] = Ended(threads[i], "done")]
            /\ stream' = stream
       ELSE /\ threads' = [threads EXCEPT ![i].pc = "write"]
            /\ stream' = RotorSend(stream, i)
            /\ UNCHANGED <<tracking_data, is_tracking>>
    /\ UNCHANGED <<now, satellite, stop_tracking_event, scheduled_passes,
                   is_scheduler_running, scheduler_stop_event, scheduler_pc, call,
                   join_deadline, result>>
    /\ UNCHANGED others

\* A horizon test that never ends the pass.
BelowHorizonNever(pos) == FALSE

\* Line 293: `if alt.degrees < 0`.
BelowHorizon(pos) == pos.el < 0

\* Lines 279-297: the rotor acknowledged; publish, then leave below the horizon
\* or go to the tick wait.
TrackWriteOk(i) ==
    /\ threads[i].pc = "write"
    /\ stream' = RotorReceive(stream)
    /\ \E pos \in Positions :
         IF BelowHorizon(pos)
         THEN /\ tracking_data' = SessionEnd(Publish(tracking_data, pos))
              /\ is_tracking' = FALSE
              /\ threads' = [threads EXCEPT ![i] = Ended(threads[i], "done")]
         ELSE /\ tracking_data' = Publish(tracking_data, pos)
              /\ is_tracking' = is_tracking
              /\ threads' = [threads EXCEPT ![i].pc = "tick_wait",
                                            ![i].deadline = now + TickInterval,
                                            ![i].woke = stop_tracking_event]
    /\ UNCHANGED <<now, satellite, stop_tracking_event, scheduled_passes,
                   is_scheduler_running, scheduler_stop_event, scheduler_pc, call,
                   join_deadline, result>>
    /\ UNCHANGED others

\* Line 279: rotor.write raises (drain or read fails); nothing in
\* _track_satellite catches it, so the thread ends there.  The exchange is
\* over and no response is owed for it any more.
TrackWriteFail(i) ==
    /\ threads[i].pc = "write"
    /\ stream' = RotorReceive(stream)
    /\ threads' = [threads EXCEPT ![i] = Ended(threads[i], "crashed")]
    /\ UNCHANGED <<now, satellite, is_tracking, stop_tracking_event, tracking_data,
                   scheduled_passes, is_scheduler_running, scheduler_stop_event,
                   scheduler_pc, call, join_deadline, result>>
    /\ UNCHANGED others

\* Lines 297-301 / back to 264: the tick wait.
TrackTickWait(i) ==
    /\ threads[i].pc = "tick_wait"
    /\ \E woke \in EventWait(threads[i]) :
         IF woke
         THEN /\ tracking_data' = SessionEnd(tracking_data)
              /\ is_tracking' = FALSE
              /\ threads' = [threads EXCEPT ![i] = Ended(threads[i], "done")]
         ELSE /\ threads' = [threads EXCEPT ![i].pc = "loop", ![i].woke = FALSE]
              /\ UNCHANGED <<tracking_data, is_tracking>>
    /\ UNCHANGED <<now, satellite, stop_tracking_event, scheduled_passes,
                   is_scheduler_running, scheduler_stop_event, scheduler_pc, call,
                   join_deadline, result>>
    /\ UNCHANGED <<others, stream>>

\* ------------------------------------------------------ facade: satellite
\* load_satellite: what the TLE file may yield.  A missing or empty file leaves
\* self.satellite as it was and returns False.
LoadSatellite ==
    {[ok |-> FALSE, satellite |-> satellite]}
        \cup {[ok |-> TRUE, satellite |-> v] : v \in 1..NumTLE}

\* Line 333: the guard of reload_satellite.
ReloadRefused == is_tracking

\* reload_satellite.
ReloadSatellite ==
    /\ call = "idle"
    /\ IF ReloadRefused
       THEN /\ result' = "Busy"
            /\ satellite' = satellite
       ELSE \E l \in LoadSatellite :
              /\ satellite' = l.satellite
              /\ result' = IF l.ok THEN "ok" ELSE "NoSatelliteData"
    /\ UNCHANGED <<now, is_tracking, stop_tracking_event, tracking_data, threads,
                   scheduled_passes, is_scheduler_running, scheduler_stop_event,
                   scheduler_pc, call, join_deadline>>
    /\ UNCHANGED <<others, stream>>

\* ------------------------------------------------------- facade: tracking
\* _get_next_pass as start_tracking uses it: None, or a pass that rises from now on.
GetNextPass == {NoPass} \cup {p \in Passes : p.rise >= now}

\* start_tracking without its guard.
StartRefusedNever == FALSE

\* Line 209: the guard of start_tracking.
StartRefused == is_tracking

\* start_tracking, lines 209-236: up to and including tracking_thread.start().
\* cap bounds the number of threads one run creates.
StartTracking(cap) ==
    /\ call = "idle"
    /\ \/ /\ StartRefused
          /\ result' = "AlreadyTracking"
          /\ UNCHANGED <<satellite, stop_tracking_event, tracking_data, threads, call>>
       \/ /\ ~StartRefused
          /\ satellite = 0
          /\ result' = "NoSatelliteData"
          /\ UNCHANGED <<satellite, stop_tracking_event, tracking_data, threads, call>>
       \/ /\ ~StartRefused
          /\ \E l \in LoadSatellite :
               /\ l.ok
               /\ satellite' = IF satellite = 0 THEN l.satellite ELSE satellite
          /\ stop_tracking_event' = FALSE
          /\ \E next_pass \in GetNextPass :
               IF next_pass = NoPass
               THEN /\ result' = "NoPassFound"
                    /\ UNCHANGED <<tracking_data, threads, call>>
               ELSE /\ Len(threads) < cap
                    /\ tracking_data' = [tracking_data EXCEPT
                                            !.status = "waiting",
                                            !.current_pass = next_pass]
                    /\ threads' = Append(threads,
                                         [NewThread(next_pass, "manual") EXCEPT
                                             !.sat = satellite'])
                    /\ call' = "start_tracking"
                    /\ result' = result
    /\ UNCHANGED <<now, is_tracking, scheduled_passes, is_scheduler_running,
                   scheduler_stop_event, scheduler_pc, join_deadline>>
    /\ UNCHANGED <<others, stream>>

\* start_tracking, lines 238-240: the flag is raised after the thread was started.
StartTrackingReturn ==
    /\ call = "start_tracking"
    /\ is_tracking' = TRUE
    /\ result' = "ok"
    /\ call' = "idle"
    /\ UNCHANGED <<now, satellite, stop_tracking_event, tracking_data, threads,
                   scheduled_passes, is_scheduler_running, scheduler_stop_event,
                   scheduler_pc, join_deadline>>
    /\ UNCHANGED <<others, stream>>

\* Lines 310-311: join(timeout=2.0) returns when the thread ended or the
\* timeout passed; it is skipped when there is no live thread.
JoinReturns == 
    \/ tracking_thread = 0
    \/ ~Alive(threads[tracking_thread])
    \/ now >= join_deadline

\* Lines 313-315: what stop_tracking writes after the join.
StopTrackingTail(td) == [td EXCEPT !.status = "idle", !.current_pass = NoPass]

\* stop_tracking, lines 305-311: the guard, the signal, and entering the join.
StopTracking ==
    /\ call = "idle"
    /\ IF ~is_tracking
       THEN /\ result' = "NotTracking"
            /\ UNCHANGED <<stop_tracking_event, threads, call, join_deadline>>
       ELSE /\ stop_tracking_event' = TRUE
            /\ threads' = EventSet(threads)
            /\ call' = "stop_tracking"
            /\ join_deadline' = now + JoinTimeout
            /\ result' = result
    /\ UNCHANGED <<now, satellite, is_tracking, tracking_data, scheduled_passes,
                   is_scheduler_running, scheduler_stop_event, scheduler_pc>>
    /\ UNCHANGED <<others, stream>>

\* stop_tracking, lines 313-317.
StopTrackingReturn ==
    /\ call = "stop_tracking"
    /\ JoinReturns
    /\ is_tracking' = FALSE
    /\ tracking_data' = StopTrackingTail(tracking_data)
    /\ result' = "ok"
    /\ call' = "idle"
    /\ join_deadline' = NoTime
    /\ UNCHANGED <<now, satellite, stop_tracking_event, threads, scheduled_passes,
                   is_scheduler_running, scheduler_stop_event, scheduler_pc>>
    /\ UNCHANGED <<others, stream>>

\* ------------------------------------------------------ facade: scheduler
\* schedule_pass, lines 368-384: the outcome and the queue it leaves.
SchedulePassOutcome(p) ==
    IF p.rise <= now
    THEN [result |-> "PastPass", queue |-> scheduled_passes]
    ELSE IF p.rise > now + OneWeek
    THEN [result |-> "TooFarAhead", queue |-> scheduled_passes]
    ELSE LET o == IsOverlapping(p)
         IN  IF o.has_overlap
             THEN [result |-> "Overlap", queue |-> o.queue]
             ELSE [result |-> "ok", queue |-> PQPut(o.queue, p)]

\* schedule_pass, under scheduler_lock.
SchedulePass(p) ==
    /\ call = "idle"
    /\ result' = SchedulePassOutcome(p).result
    /\ scheduled_passes' = SchedulePassOutcome(p).queue
    /\ UNCHANGED <<now, satellite, is_tracking, stop_tracking_event, tracking_data,
                   threads, is_scheduler_running, scheduler_stop_event, scheduler_pc,
                   call, join_deadline>>
    /\ UNCHANGED <<others, stream>>

\* start_scheduler.
StartScheduler ==
    /\ call = "idle"
    /\ IF is_scheduler_running
       THEN /\ result' = "AlreadyRunning"
            /\ UNCHANGED <<is_scheduler_running, scheduler_stop_event, scheduler_pc>>
       ELSE /\ scheduler_stop_event' = FALSE
            /\ is_scheduler_running' = TRUE
            /\ scheduler_pc' = "loop"
            /\ result' = "ok"
    /\ UNCHANGED <<now, satellite, is_tracking, stop_tracking_event, tracking_data,
                   threads, scheduled_passes, call, join_deadline>>
    /\ UNCHANGED <<others, stream>>

\* stop_scheduler, lines 351-357: the guard, the signal, and entering the join.
StopScheduler ==
    /\ call = "idle"
    /\ IF ~is_scheduler_running
       THEN /\ result' = "NotRunning"
            /\ UNCHANGED <<scheduler_stop_event, call, join_deadline>>
       ELSE /\ scheduler_stop_event' = TRUE
            /\ call' = "stop_scheduler"
            /\ join_deadline' = now + JoinTimeout
            /\ result' = result
    /\ UNCHANGED <<now, satellite, is_tracking, stop_tracking_event, tracking_data,
                   threads, scheduled_passes, is_scheduler_running, scheduler_pc>>
    /\ UNCHANGED <<others, stream>>

\* stop_scheduler, lines 359-364 with the stop_tracking call of line 360 entered:
\* after the scheduler thread was joined.
StopSchedulerJoined ==
    /\ call = "stop_scheduler"
    /\ scheduler_pc # "loop" \/ now >= join_deadline
    /\ IF is_tracking
       THEN /\ stop_tracking_event' = TRUE
            /\ threads' = EventSet(threads)
            /\ call' = "stop_scheduler_stop_tracking"
            /\ join_deadline' = now + JoinTimeout
            /\ UNCHANGED <<is_scheduler_running, result>>
       ELSE /\ is_scheduler_running' = FALSE
            /\ result' = "ok"
            /\ call' = "idle"
            /\ join_deadline' = NoTime
            /\ UNCHANGED <<stop_tracking_event, threads>>
    /\ UNCHANGED <<now, satellite, is_tracking, tracking_data, scheduled_passes,
                   scheduler_stop_event, scheduler_pc>>
    /\ UNCHANGED <<others, stream>>

\* stop_scheduler, lines 360-364: the nested stop_tracking returns (lines 313-317).
StopSchedulerReturn ==
    /\ call = "stop_scheduler_stop_tracking"
    /\ JoinReturns
    /\ is_tracking' = FALSE
    /\ tracking_data' = StopTrackingTail(tracking_data)
    /\ is_scheduler_running' = FALSE
    /\ result' = "ok"
    /\ call' = "idle"
    /\ join_deadline' = NoTime
    /\ UNCHANGED <<now, satellite, stop_tracking_event, threads, scheduled_passes,
                   scheduler_stop_event, scheduler_pc>>
    /\ UNCHANGED <<others, stream>>

\* ------------------------------------------------------ scheduler thread
\* The scheduling loop, step (a): no session active and the queue not empty:
\* pop the earliest-rise entry and start a session for it.
SchedulerPop ==
    /\ scheduler_pc = "loop"
    /\ ~scheduler_stop_event
    /\ ~is_tracking
    /\ tracking_data.status = "idle"
    /\ scheduled_passes # <<>>
    /\ Len(threads) < MaxSessions
    /\ scheduled_passes' = Tail(scheduled_passes)
    /\ stop_tracking_event' = FALSE
    /\ tracking_data' = [tracking_data EXCEPT
                            !.status = "waiting",
                            !.current_pass = Head(scheduled_passes)]
    /\ threads' = Append(threads, NewThread(Head(scheduled_passes), "scheduler"))
    /\ is_tracking' = TRUE
    /\ UNCHANGED <<now, satellite, is_scheduler_running, scheduler_stop_event,
                   scheduler_pc, call, join_deadline, result>>
    /\ UNCHANGED <<others, stream>>

\* The scheduling loop observes the stop signal and ends.
SchedulerExit ==
    /\ scheduler_pc = "loop"
    /\ scheduler_stop_event
    /\ scheduler_pc' = "exited"
    /\ UNCHANGED <<now, satellite, is_tracking, stop_tracking_event, tracking_data,
                   threads, scheduled_passes, is_scheduler_running,
                   scheduler_stop_event, call, join_deadline, result>>
    /\ UNCHANGED <<others, stream>>

\* ------------------------------------------------------------------ clock
\* A thread with a step that is due.
Due(t) ==
    \/ t.pc \in {"start", "loop"}
    \/ t.pc \in {"wait_rise", "tick_wait"}
         /\ EventWait(t) # {}

\* The event loop has a step that is due.
CallDue ==
    \/ call \in {"start_tracking", "get_tracking_data"}
    \/ call \in {"stop_tracking", "stop_scheduler_stop_tracking"} /\ JoinReturns
    \/ call = "stop_scheduler" /\ (scheduler_pc # "loop" \/ now >= join_deadline)

Tick ==
    /\ now < MaxNow
    /\ \A i \in DOMAIN threads : ~Due(threads[i])
    /\ ~CallDue
    /\ ~(scheduler_pc = "loop" /\ scheduler_stop_event)
    /\ now' = now + 1
    /\ UNCHANGED <<satellite, is_tracking, stop_tracking_event, tracking_data, threads,
                   scheduled_passes, is_scheduler_running, scheduler_stop_event,
                   scheduler_pc, call, join_deadline, result>>
    /\ UNCHANGED <<others, stream>>

\* The session threads.
SessionStep ==
    \/ \E i \in DOMAIN threads : TrackBegin(i)
    \/ \E i \in DOMAIN threads : TrackWaitRise(i)
    \/ \E i \in DOMAIN threads : TrackLoop(i)
    \/ \E i \in DOMAIN threads : TrackWriteOk(i)
    \/ \E i \in DOMAIN threads : TrackWriteFail(i)
    \/ \E i \in DOMAIN threads : TrackTickWait(i)

\* The manual tracking calls of the facade (satellite_routes.py).
TrackCall(cap) ==
    \/ StartTracking(cap)
    \/ StartTrackingReturn
    \/ StopTracking
    \/ StopTrackingReturn

\* The scheduler calls of the facade and the scheduler thread.
SchedulerStep ==
    \/ \E p \in Passes : SchedulePass(p)
    \/ StartScheduler
    \/ StopScheduler
    \/ StopSchedulerJoined
    \/ StopSchedulerReturn
    \/ SchedulerPop
    \/ SchedulerExit

\* The whole tracker.
Next == SessionStep \/ TrackCall(MaxSessions) \/ ReloadSatellite \/ SchedulerStep \/ Tick

Spec == Init /\ [][Next]_vars

\* The tracker with the scheduler never started and nothing scheduled:
\* manual tracking, reload and the session threads.
NextTrack == SessionStep \/ TrackCall(MaxManual) \/ ReloadSatellite \/ Tick

SpecTrack == Init /\ [][NextTrack]_vars

\* The tracker with its satellite loaded at construction and never reloaded:
\* admission, the scheduler, manual tracking and the session threads.
InitSched == Init /\ satellite = 1

NextSched == SessionStep \/ TrackCall(MaxSessions) \/ SchedulerStep \/ Tick

SpecSched == InitSched /\ [][NextSched]_vars

\* The scheduler alone, with the scheduling the threads get: a session thread
\* that can take a step other than the rotor exchange (which may block for
\* ever) takes it, the scheduler thread runs, a facade call in progress
\* returns when its join does, and the clock advances.  Calls of the facade
\* arrive or not as the callers like.
NextSchedOnly == SessionStep \/ SchedulerStep \/ Tick

\* The steps of session thread i other than the rotor exchange.
ThreadRuns(i) ==
    /\ i \in DOMAIN threads
    /\ TrackBegin(i) \/ TrackWaitRise(i) \/ TrackLoop(i) \/ TrackTickWait(i)

SessionFairness == \A i \in 1..MaxSessions : WF_vars(ThreadRuns(i))

SpecSchedFair ==
    /\ InitSched
    /\ [][NextSchedOnly]_vars
    /\ SessionFairness
    /\ WF_vars(SchedulerPop)
    /\ WF_vars(SchedulerExit)
    /\ WF_vars(StopSchedulerJoined \/ StopSchedulerReturn)
    /\ WF_vars(Tick)

\* Admission with manual tracking of at most one session and no scheduler
\* thread: schedule_pass against the in-flight pass and the queue.
NextAdmit == SessionStep \/ TrackCall(1) \/ (\E p \in Passes : SchedulePass(p)) \/ Tick

SpecAdmit == InitSched /\ [][NextAdmit]_vars

\* ------------------------------------------------------------ pass search
\* What satellite.find_events may return for one window: no events, events that
\* do not begin with a rise/culminate/set triple, or events that do.
FindEvents == {"none", "partial", "full"}

\* A loop test that lets one more attempt through.
SearchExhaustedLate(attempts) == attempts > MaxAttempts

\* Line 188: `while attempts < max_attempts`, negated.
SearchExhausted(attempts) == attempts >= MaxAttempts

\* _get_next_pass, lines 181-186: the first find_events call.
GetNextPassBegin ==
    /\ search.pc = "none"
    /\ \E ev \in FindEvents :
         search' = [NoSearch EXCEPT !.pc = "loop", !.events = ev, !.finds = 1]
    /\ UNCHANGED <<tracker_vars, control, snapshot, stream, link>>

\* _get_next_pass, lines 188-204: one turn of the loop, or leaving it.  The
\* window moves past the last event (nudges) or by a day (days).
GetNextPassStep ==
    /\ search.pc = "loop"
    /\ IF SearchExhausted(search.attempts)
       THEN search' = [search EXCEPT !.pc = "returned", !.found = FALSE]
       ELSE IF search.events = "full"
       THEN search' = [search EXCEPT !.pc = "returned", !.found = TRUE]
       ELSE \E ev \in FindEvents :
              search' = [search EXCEPT
                            !.events = ev,
                            !.attempts = @ + 1,
                            !.finds = @ + 1,
                            !.days = IF search.events = "none" THEN @ + 1 ELSE @,
                            !.nudges = IF search.events = "partial" THEN @ + 1 ELSE @]
    /\ UNCHANGED <<tracker_vars, control, snapshot, stream, link>>

\* One _get_next_pass call against any astronomy provider.
NextSearch == GetNextPassBegin \/ GetNextPassStep

SpecSearch == Init /\ [][NextSearch]_vars

\* -------------------------------------------------------- telemetry read
\* get_tracking_data, line 321: the call is entered and satellite_name is read.
GetTrackingDataBegin ==
    /\ call = "idle"
    /\ call' = "get_tracking_data"
    /\ snapshot' = [pc |-> "reading", next |-> 1, satellite |-> satellite,
                    data |-> DefaultTrackingData]
    /\ UNCHANGED <<now, satellite, is_tracking, stop_tracking_event, tracking_data,
                   threads, scheduled_passes, is_scheduler_running,
                   scheduler_stop_event, scheduler_pc, join_deadline, result,
                   search, control, stream, link>>

\* get_tracking_data, lines 322-328: one subscript of self.tracking_data is
\* read per step, in the order of the dict display; the last read returns.
GetTrackingDataRead ==
    /\ call = "get_tracking_data"
    /\ LET f == ReadOrder[snapshot.next]
           last == snapshot.next = Len(ReadOrder)
       IN  /\ snapshot' = [snapshot EXCEPT
                              !.data = [@ EXCEPT ![f] = tracking_data[f]],
                              !.next = IF last THEN 0 ELSE @ + 1,
                              !.pc = IF last THEN "returned" ELSE @]
           /\ call' = IF last THEN "idle" ELSE call
    /\ UNCHANGED <<now, satellite, is_tracking, stop_tracking_event, tracking_data,
                   threads, scheduled_passes, is_scheduler_running,
                   scheduler_stop_event, scheduler_pc, join_deadline, result,
                   search, control, stream, link>>

\* Manual tracking of at most one session with a reader of the telemetry.
NextRead ==
    \/ SessionStep
    \/ TrackCall(1)
    \/ GetTrackingDataBegin
    \/ GetTrackingDataRead
    \/ Tick

SpecRead == InitSched /\ [][NextRead]_vars

\* ------------------------------------------------------ control endpoint
\* Request values around the limits of both parameters.
AzInputs == {-AzLimit - 1, -AzLimit, 0, AzLimit, AzLimit + 1}
ElInputs == {ElLow - 1, ElLow, 45, ElHigh, ElHigh + 1}

\* A check that follows the text of the elevation error message, "between 0 and 90".
ControlRejectedFromZero(azimuth, elevation) ==
    \/ azimuth > AzLimit \/ azimuth < -AzLimit
    \/ elevation < 0 \/ elevation > ElHigh

\* rotor_control, lines 32 and 35: the two range checks.
ControlRejected(azimuth, elevation) ==
    \/ azimuth > AzLimit \/ azimuth < -AzLimit
    \/ elevation < ElLow \/ elevation > ElHigh

\* rotor_control: HTTP 400 from the checks, or rotctl P run, which succeeds or
\* raises (lines 38-45).
RotorControl ==
    /\ \E azimuth \in AzInputs, elevation \in ElInputs :
         IF ControlRejected(azimuth, elevation)
         THEN control' = [control EXCEPT !.azimuth = azimuth,
                                         !.elevation = elevation,
                                         !.response = "400"]
         ELSE /\ Len(control.commands) < MaxCommands
              /\ \E r \in {"success", "error"} :
                   control' = [azimuth |-> azimuth, elevation |-> elevation,
                               response |-> r,
                               commands |-> Append(control.commands,
                                                   <<azimuth, elevation>>)]
    /\ UNCHANGED <<tracker_vars, search, snapshot, stream, link>>

SpecControl == Init /\ [][RotorControl]_vars

\* ------------------------------------------------------ rotor connection
\* initialize, line 9: the test of cls.reader. With a connection held the call
\* returns cls (line 11); with none it awaits open_connection, and other
\* coroutines run until that returns.
InitializeCheck(c) ==
    /\ link.pc[c] = "idle"
    /\ link' = [link EXCEPT !.pc[c] = IF link.reader = NoConnection
                                       THEN "opening" ELSE "returned"]
    /\ UNCHANGED <<tracker_vars, search, control, snapshot, stream>>

\* initialize, line 10: open_connection returns a new connection, which is
\* assigned to cls.reader, cls.writer whatever they hold by now; or it raises
\* and the call ends with the attributes as they are.
InitializeOpen(c) ==
    /\ link.pc[c] = "opening"
    /\ \/ link' = [link EXCEPT !.opened = @ + 1,
                                !.reader = link.opened + 1,
                                !.pc[c] = "returned"]
       \/ link' = [link EXCEPT !.pc[c] = "raised"]
    /\ UNCHANGED <<tracker_vars, search, control, snapshot, stream>>

\* write, lines 26-29, called on the class an initialize call returned
\* (self.rotor, satellite_tracker.py line 71): the command, drain and read all
\* go to cls.writer and cls.reader as they are. On a connection whose
\* transport has failed drain raises; on a sound one the exchange completes or
\* the transport fails now. Nothing in write assigns cls.reader or cls.writer.
RotorWrite ==
    /\ \E c \in 1..NumCallers : link.pc[c] = "returned"
    /\ Len(link.log) < MaxExchanges
    /\ IF link.reader \in link.failed
       THEN link' = [link EXCEPT !.log = Append(@, [conn |-> link.reader,
                                                    outcome |-> "error"])]
       ELSE \/ link' = [link EXCEPT !.log = Append(@, [conn |-> link.reader,
                                                      outcome |-> "ok"])]
            \/ link' = [link EXCEPT !.failed = @ \cup {link.reader},
                                    !.log = Append(@, [conn |-> link.reader,
                                                       outcome |-> "error"])]
    /\ UNCHANGED <<tracker_vars, search, control, snapshot, stream>>

NextLink ==
    \/ \E c \in 1..NumCallers : InitializeCheck(c)
    \/ \E c \in 1..NumCallers : InitializeOpen(c)
    \/ RotorWrite

SpecLink == Init /\ [][NextLink]_vars

\* ================================================================ claims
\* Half-open interval intersection, as the written specification defines overlap.
Overlaps(a, b) == a.rise < b.set /\ b.rise < a.set

Queued == {scheduled_passes[k] : k \in DOMAIN scheduled_passes}

\* The pass the tracker holds as in flight: the current pass of the active session.
InFlight ==
    IF is_tracking /\ tracking_data.current_pass # NoPass
    THEN {tracking_data.current_pass} ELSE {}

LiveThreads == {i \in DOMAIN threads : Alive(threads[i])}

\* C1: admission invariant: no two queued passes overlap each other and no
\* queued pass overlaps the pass of the currently active session.
C1_AdmissionInvariant ==
    /\ \A j, k \in DOMAIN scheduled_passes :
          j # k => ~Overlaps(scheduled_passes[j], scheduled_passes[k])
    /\ \A q \in Queued : \A c \in InFlight : ~Overlaps(q, c)

\* C2: serialization: at most one session thread is in the waiting/tracking
\* loop at any time.
C2_AtMostOneSession ==
    Cardinality({i \in LiveThreads : threads[i].pc # "start"}) <= 1

\* The outcome the written specification gives schedule(p).
AdmissionRule(p) ==
    IF p.rise <= now THEN "PastPass"
    ELSE IF p.rise > now + OneWeek THEN "TooFarAhead"
    ELSE IF \E o \in InFlight \cup Queued : Overlaps(p, o) THEN "Overlap"
    ELSE "ok"

IsSortedByRise(q) == \A j, k \in DOMAIN q : j < k => q[j].rise <= q[k].rise

C4_StartRefusedWhileTracking ==
    [][/\ is_tracking => /\ Len(threads') = Len(threads)
                         /\ call' # "start_tracking"
       /\ (result' = "AlreadyTracking" /\ result # "AlreadyTracking") =>
             /\ is_tracking
             /\ UNCHANGED <<now, satellite, is_tracking, stop_tracking_event,
                            tracking_data, threads, scheduled_passes, call>>]_vars

C4_Witness ==
    /\ result = "AlreadyTracking"
    /\ is_tracking
    /\ LiveThreads # {}

\* C5: a session that was signalled to stop while waiting or tracking has ended
\* within one tick interval of the signal, and until it has the signal is still
\* there for it (the flag is up, or its wait was notified).
C5_CancelWithinOneTick ==
    \A i \in LiveThreads :
        threads[i].cancel_at # NoTime =>
            /\ now <= threads[i].cancel_at + TickInterval
            /\ stop_tracking_event \/ threads[i].woke

\* C6: a session cancelled while waiting for its rise time (status "waiting",
\* rise not yet reached, the thread before or inside the rise wait) never sets
\* the status to "tracking" and never reaches the rotor write.
C6_CancelledWaitingNeverTracks ==
    \A i \in DOMAIN threads :
        threads[i].cancel_phase = "waiting" =>
            /\ ~threads[i].tracked
            /\ threads[i].pc \in {"start", "wait_rise", "done"}

\* C7: in every state with no active session (no live session thread, the flag
\* down, no facade call in progress) the telemetry holds its defaults and
\* current_pass is None.
C7_TelemetryResetOnEnd ==
    (LiveThreads = {} /\ ~is_tracking /\ call = "idle")
        => tracking_data = DefaultTrackingData

\* C8: the scheduler starts the session of a queue entry only when every
\* session it started before has ended, and the entry is the earliest-rise one.
C8_SchedulerSerial ==
    [][(Len(threads') = Len(threads) + 1 /\ threads'[Len(threads')].by = "scheduler") =>
          /\ \A i \in DOMAIN threads : threads[i].by = "scheduler" => ~Alive(threads[i])
          /\ \A q \in Queued : threads'[Len(threads')].pass.rise <= q.rise]_vars

\* C9: the satellite is never replaced while a session thread is using it:
\* every live session runs on the satellite it was started with.
C9_SatelliteKeptWhileUsed ==
    \A i \in LiveThreads : threads[i].sat = satellite

\* C10: a link failure in a tick's rotor write does not end the session thread.
C10_LinkFailureKeepsSession ==
    \A i \in DOMAIN threads : threads[i].pc # "crashed"

\* C11: when stop_scheduler returns after being called on a running scheduler,
\* the scheduler is marked not running, is_tracking is false, the status is idle
\* and no session thread is left alive; a stop_scheduler call on a scheduler
\* that is not running changes no attribute of the tracker.
C11_StopSchedulerLeavesNothing ==
    [][/\ (call \in {"stop_scheduler", "stop_scheduler_stop_tracking"} /\ call' = "idle") =>
             /\ ~is_scheduler_running'
             /\ ~is_tracking'
             /\ tracking_data'.status = "idle"
             /\ \A i \in DOMAIN threads' : ~Alive(threads'[i])
       /\ (result' = "NotRunning" /\ result # "NotRunning") =>
             /\ ~is_scheduler_running
             /\ UNCHANGED <<now, satellite, is_tracking, stop_tracking_event,
                            tracking_data, threads, scheduled_passes,
                            is_scheduler_running, scheduler_stop_event,
                            scheduler_pc, call>>]_vars

\* C12: stop_tracking acts (raises the stop signal and goes on to reset the
\* tracker) only when a session thread is alive; called with no session, or with
\* the session already ended, it changes no attribute of the tracker; and when
\* it has returned a second call is such a no-op.
C12_StopTrackingIdempotent ==
    [][/\ (call = "idle" /\ call' = "stop_tracking") => LiveThreads # {}
       /\ (result' = "NotTracking" /\ result # "NotTracking") =>
             /\ ~is_tracking
             /\ UNCHANGED <<now, satellite, is_tracking, stop_tracking_event,
                            tracking_data, threads, scheduled_passes,
                            is_scheduler_running, scheduler_stop_event,
                            scheduler_pc, call>>
       /\ (call = "stop_tracking" /\ call' = "idle") => ~is_tracking']_vars

\* C13: for every pass A and every pass B that is in flight or queued, the
\* comparison of _is_overlapping answers A.rise < B.set /\ B.rise < A.set; it
\* is symmetric, it is true of B with itself, and _is_overlapping answers true
\* exactly when the comparison is true of some in-flight or queued pass.
C13_OverlapTestIsIntersection ==
    /\ \A a \in Passes : \A b \in InFlight \cup Queued :
          /\ OverlapTest(a, b) = Overlaps(a, b)
          /\ OverlapTest(a, b) = OverlapTest(b, a)
    /\ \A b \in InFlight \cup Queued : OverlapTest(b, b)
    /\ \A a \in Passes :
          IsOverlapping(a).has_overlap
              = (\E b \in InFlight \cup Queued : Overlaps(a, b))

\* A pass is in flight and another is queued; of the passes compared with them
\* one starts inside the in-flight pass, one contains the queued pass, one only
\* touches the queued pass and is not overlapping.
C13_Witness ==
    /\ InFlight = {[rise |-> 0, set |-> 2]}
    /\ Queued = {[rise |-> 2, set |-> 3]}
    /\ OverlapTest([rise |-> 1, set |-> 2], [rise |-> 0, set |-> 2])
    /\ OverlapTest([rise |-> 2, set |-> 4], [rise |-> 2, set |-> 3])
    /\ ~OverlapTest([rise |-> 3, set |-> 4], [rise |-> 2, set |-> 3])
    /\ ~IsOverlapping([rise |-> 3, set |-> 4]).has_overlap

\* C14: _get_next_pass terminates: every turn of its loop either returns or
\* counts one more attempt, and the count never passes max_attempts; it makes
\* one find_events call before the loop and one per attempt; and when it
\* returns None it has made exactly max_attempts further attempts.
C14_BoundedSearch ==
    /\ [](/\ search.attempts <= MaxAttempts
          /\ search.pc # "none" => search.finds = search.attempts + 1
          /\ (search.pc = "returned" /\ ~search.found) =>
                search.attempts = MaxAttempts)
    /\ [][search.pc = "loop" =>
             \/ search'.pc = "returned" /\ search'.attempts = search.attempts
             \/ search'.pc = "loop" /\ search'.attempts = search.attempts + 1]_search

\* The provider never yielded a complete triple and the search gave up.
C14_Witness ==
    /\ search.pc = "returned"
    /\ ~search.found
    /\ search.events # "full"
    /\ search.finds = MaxAttempts + 1

C16_StatusStateMachine ==
    [][/\ tracking_data'.status # tracking_data.status =>
             <<tracking_data.status, tracking_data'.status>> \in
                 {<<"idle", "waiting">>, <<"waiting", "tracking">>,
                  <<"waiting", "idle">>, <<"tracking", "idle">>}
       /\ (tracking_data.status = "idle" /\ tracking_data'.status = "waiting") =>
             Len(threads') = Len(threads) + 1
       /\ \A i \in DOMAIN threads :
             (Alive(threads[i]) /\ ~Alive(threads'[i])) =>
                 tracking_data'.status = "idle"]_vars

\* C17: a session thread at the top of its loop with now > pass.set ends there:
\* it does not go on to the rotor write, publishes nothing and leaves the status
\* idle; a thread whose rotor write returned ends in that step exactly when the
\* elevation it published is below 0, with the telemetry of that tick published
\* and the status idle, and otherwise goes to its tick wait; neither is a step
\* of a facade call.
C17_TickEndsSession ==
    [][\A i \in DOMAIN threads :
          /\ (/\ threads[i].pc = "loop"
              /\ now > threads[i].pass.set
              /\ threads'[i].pc # "loop") =>
                 /\ threads'[i].pc = "done"
                 /\ tracking_data' = [tracking_data EXCEPT !.status = "idle"]
                 /\ ~is_tracking'
                 /\ call' = call
          /\ (/\ threads[i].pc = "write"
              /\ threads'[i].pc \notin {"write", "crashed"}) =>
                 /\ tracking_data'.last_updated = now
                 /\ threads'[i].pc = IF tracking_data'.elevation < 0
                                     THEN "done" ELSE "tick_wait"
                 /\ threads'[i].pc = "done" =>
                       tracking_data'.status = "idle" /\ ~is_tracking'
                 /\ call' = call]_vars

\* The only session of the run tracked, published a position above the horizon
\* and then ended on its own at a tick after the set time of its pass.
C17_Witness ==
    /\ Len(threads) = 1
    /\ threads[1].pc = "done"
    /\ tracking_data.status = "idle"
    /\ ~is_tracking
    /\ tracking_data.current_pass # NoPass
    /\ tracking_data.current_pass.set < now
    /\ tracking_data.elevation > 0
    /\ tracking_data.last_updated = tracking_data.current_pass.set

\* The scheduler is running and not stopped, a pass is queued and no session
\* thread is alive (and the run may still create a session).
SchedulerReady ==
    /\ scheduler_pc = "loop"
    /\ ~scheduler_stop_event
    /\ scheduled_passes # <<>>
    /\ LiveThreads = {}
    /\ Len(threads) < MaxSessions

OneUpdate(td) ==
    \/ /\ td.azimuth = 0 /\ td.elevation = 0 /\ td.distance = 0
       /\ td.last_updated = NoTime
    \/ /\ \E pos \in Positions :
             td.azimuth = pos.az /\ td.elevation = pos.el /\ td.distance = pos.dist
       /\ td.last_updated # NoTime

\* C19: the telemetry record holds the fields of one update at every instant,
\* and so does every result of get_tracking_data.
C19_SnapshotAtomic ==
    /\ OneUpdate(tracking_data)
    /\ snapshot.pc = "returned" => OneUpdate(snapshot.data)

\* C20: on the rotor connection at most one request is unanswered for at any
\* time, no response is owed when no thread is inside rotor.write, and the
\* read that ends a thread's exchange takes the response to that thread's own
\* request.
C20_RotorStreamFramed ==
    /\ [](/\ Len(stream) <= 1
          /\ (\A i \in DOMAIN threads : threads[i].pc # "write") => stream = <<>>)
    /\ [][\A i \in DOMAIN threads :
             (threads[i].pc = "write" /\ threads'[i].pc \in {"tick_wait", "done"}) =>
                 /\ stream # <<>>
                 /\ Head(stream) = i]_vars

\* C21: after an exchange has failed the failed connection is no longer held
\* as reader/writer, and no later exchange is made over it: the exchange after
\* a failure goes over a connection opened since.
C21_LinkTornDownAndReopened ==
    /\ link.reader \notin link.failed
    /\ \A j, k \in DOMAIN link.log :
          (j < k /\ link.log[j].outcome = "error") =>
              link.log[k].conn # link.log[j].conn

\* C22: an initialize call made while a connection is held returns with the
\* same reader/writer and opens nothing, and over all the initialize calls of
\* a run at most one connection is opened.
C22_InitializeIdempotent ==
    /\ [][\A c \in 1..NumCallers :
             (link.pc[c] = "idle" /\ link'.pc[c] # "idle"
                                  /\ link.reader # NoConnection) =>
                 /\ link'.pc[c] = "returned"
                 /\ link'.reader = link.reader
                 /\ link'.opened = link.opened]_vars
    /\ [](link.opened <= 1)

\* The sequence q with its k-th entry taken out.
Without(q, k) == SubSeq(q, 1, k - 1) \o SubSeq(q, k + 1, Len(q))

\* C23: the overlap scan of _is_overlapping hands back the queue entry for
\* entry as it found it; a schedule_pass call that is refused leaves the queue
\* equal to what it was, and one that succeeds leaves the old queue with the
\* new pass added and nothing else changed.
C23_QueueFrame ==
    \A p \in Passes :
        LET o == SchedulePassOutcome(p)
        IN  /\ IsOverlapping(p).queue = scheduled_passes
            /\ o.result # "ok" => o.queue = scheduled_passes
            /\ o.result = "ok" =>
                  \E k \in DOMAIN o.queue :
                      /\ o.queue[k] = p
                      /\ Without(o.queue, k) = scheduled_passes

\* A call has just been refused for overlap by the scan of a queue of two
\* passes (no session was ever started), and some pass would be refused now
\* because of the second entry alone.
C23_Witness ==
    /\ result = "Overlap"
    /\ threads = <<>>
    /\ Len(scheduled_passes) = 2
    /\ \E p \in Passes :
          /\ ~OverlapTest(p, scheduled_passes[1])
          /\ OverlapTest(p, scheduled_passes[2])
          /\ SchedulePassOutcome(p).result = "Overlap"

\* C24: whenever no session thread is running and no facade call is in
\* progress, is_tracking is false and the status is idle.
C24_FlagFollowsSession ==
    (LiveThreads = {} /\ call = "idle") =>
        (~is_tracking /\ tracking_data.status = "idle")

====
